---- MODULE Spec2Model ----
(***************************************************************************)
(* Repository-hygiene checks: the three tree-walking scripts                *)
(* (sensitive-file check, size-limit check, whitespace normalizer) and the  *)
(* two frontmatter scripts (validate-frontmatter.js,                        *)
(* verify-agent-consistency.js).                                            *)
(*                                                                          *)
(* Text is modelled as sequences of one-character strings, so that          *)
(* startsWith, indexOf, substring, split, trimRight, extname and the        *)
(* regular expressions are computed the way the scripts compute them.       *)
(***************************************************************************)
EXTENDS Integers, Sequences, FiniteSets, TLC

VARIABLES
    check,      \* which script runs: "blocked", "size", "fix", "validate", "consistency"
    tree,       \* the working tree: a set of nodes [path, kind]
    disk,       \* file path -> content (sequence of characters)
    sizes,      \* file path -> stat.size in bytes
    stack,      \* directory entries still to be processed, in traversal order
    status,     \* "start", "running", "done", "aborted"
    cause,      \* why the run aborted ("" while it has not)
    pass,       \* 1 in the first run of the script, 2 in a second run on the same tree
    count,      \* blockedCount / errorCount / filesFixed of the running script
    fileCount,  \* validate-frontmatter.js: files checked
    allNames,   \* verify-agent-consistency.js: the Set of names seen
    log         \* one record per callback invocation: [pass, file, input, ev, output]

vars == <<check, tree, disk, sizes, stack, status, cause, pass, count,
          fileCount, allNames, log>>

----------------------------------------------------------------------------
(* Bounds of the model *)

\* largest number of nodes (files and directories) of an enumerated tree
MaxNodes == 3

\* longest file content drawn for the normalizer, in characters
MaxLen == 3

----------------------------------------------------------------------------
(* Characters and strings *)

Upper == <<"A","B","C","D","E","F","G","H","I","J","K","L","M",
           "N","O","P","Q","R","S","T","U","V","W","X","Y","Z">>

Lower == <<"a","b","c","d","e","f","g","h","i","j","k","l","m",
           "n","o","p","q","r","s","t","u","v","w","x","y","z">>

\* String.prototype.toLowerCase on one character
LowerChar(c) ==
    IF \E i \in 1..Len(Upper) : Upper[i] = c
    THEN Lower[CHOOSE i \in 1..Len(Upper) : Upper[i] = c]
    ELSE c

\* String.prototype.toLowerCase (also the /i flag of a regular expression)
toLowerCase(s) == [i \in 1..Len(s) |-> LowerChar(s[i])]

\* the characters \s matches and trimRight removes, among those modelled
WhiteSpace == {" ", "\t", "\r", "\n"}

\* s has t at offset i (0-based, as JavaScript counts)
HasAt(s, t, i) ==
    /\ i >= 0
    /\ i + Len(t) <= Len(s)
    /\ \A k \in 1..Len(t) : s[i + k] = t[k]

startsWith(s, t) == HasAt(s, t, 0)

endsWith(s, t) == HasAt(s, t, Len(s) - Len(t))

\* String.prototype.includes, an unanchored literal pattern
includes(s, t) == \E i \in 0..Len(s) : HasAt(s, t, i)

\* String.prototype.indexOf(t, from): the first offset >= from, or -1
indexOf(s, t, from) ==
    LET hits == {i \in from..Len(s) : HasAt(s, t, i)}
    IN  IF hits = {} THEN -1
        ELSE CHOOSE i \in hits : \A j \in hits : i <= j

\* String.prototype.substring(a, b) for 0 <= a <= b <= length
substring(s, a, b) == SubSeq(s, a + 1, b)

----------------------------------------------------------------------------
(* Paths.  A name is a string (sequence of characters); a path is the       *)
(* sequence of names from the scan root (process.cwd()) down to the entry.  *)

\* path.basename(filePath)
basename(p) == p[Len(p)]

RECURSIVE JoinWith(_, _)
\* Array.prototype.join(sep) on a sequence of strings
JoinWith(parts, sep) ==
    IF parts = <<>> THEN <<>>
    ELSE IF Len(parts) = 1 THEN parts[1]
    ELSE parts[1] \o sep \o JoinWith(Tail(parts), sep)

\* path.relative(cwd, filePath) for a path below cwd
relative(p) == JoinWith(p, <<"/">>)

\* path.extname(name): from the last "." on, "" when there is none or when
\* the only one is the name's first character
extname(name) ==
    LET dots == {i \in 1..Len(name) : name[i] = "."}
        last == CHOOSE i \in dots : \A j \in dots : j <= i
    IN  IF dots = {} THEN <<>>
        ELSE IF last = 1 THEN <<>>
        ELSE SubSeq(name, last, Len(name))

\* the characters a "." of a regular expression does not match
LineTerminators == {"\n", "\r"}

\* ".*" can cover s from offset a up to offset b
DotStar(s, a, b) == a <= b /\ \A i \in (a + 1)..b : s[i] \notin LineTerminators

----------------------------------------------------------------------------
(* The scripts' constants *)

N_node_modules == <<"n","o","d","e","_","m","o","d","u","l","e","s">>
N_git == <<".","g","i","t">>
N_dist == <<"d","i","s","t">>
N_build == <<"b","u","i","l","d">>
N_next == <<".","n","e","x","t">>
N_cache == <<".","c","a","c","h","e">>

\* EXCLUDED_DIRS of the sensitive-file check
EXCLUDED_DIRS_blocked == {N_node_modules, N_git, N_dist, N_build, N_next}

\* EXCLUDED_DIRS of the size-limit check
EXCLUDED_DIRS_size == {N_node_modules, N_git, N_dist, N_build, N_next, N_cache}

\* PATTERNS.exclude of the normalizer
PATTERNS_exclude == {N_node_modules, N_git, N_dist, N_build, N_next}

\* the exclusion set the running script's walkDir tests directory names against
Excluded(c) ==
    CASE c = "blocked" -> EXCLUDED_DIRS_blocked
      [] c = "size"    -> EXCLUDED_DIRS_size
      [] OTHER         -> PATTERNS_exclude

\* a faulty variant: the exclusion set is consulted for the entries of the root only
Descend_RootOnly(c, p) == Len(p) > 1 \/ p[Len(p)] \notin Excluded(c)

\* !EXCLUDED_DIRS.includes(file): walkDir recurses into directory p
Descend(c, p) == p[Len(p)] \notin Excluded(c)

\* the extensions the normalizer's walkDir passes to its callback
\* (isCode || isMarkdown || isYaml); the extension is not lower-cased
FixExts == {<<".","m","d">>, <<".","y","m","l">>, <<".","y","a","m","l">>, <<".","j","s">>, <<".","j","s","o","n">>, <<".","t","s">>, <<".","t","s","x">>, <<".","j","s","x">>}

IMAGE_EXTS == {<<".","p","n","g">>, <<".","j","p","g">>, <<".","j","p","e","g">>, <<".","g","i","f">>, <<".","s","v","g">>, <<".","w","e","b","p">>}

VIDEO_EXTS == {<<".","m","p","4">>, <<".","m","o","v">>, <<".","a","v","i">>, <<".","m","k","v">>, <<".","w","e","b","m">>}

SIZE_LIMITS_default == 1024 * 1024

SIZE_LIMITS_images == 500 * 1024

----------------------------------------------------------------------------
(* Sensitive-file check: BLOCKED_PATTERNS *)

\* BLOCKED_PATTERNS[k].test(s), k counted from 1
PatternTest(k, s) ==
    CASE k = 1  -> \/ s = <<".","e","n","v">>
                   \/ startsWith(s, <<".","e","n","v",".">>) /\ DotStar(s, 5, Len(s))
      [] k = 2  -> s = <<".","e","n","v",".","l","o","c","a","l">>
      [] k = 3  -> /\ startsWith(s, <<".","e","n","v",".">>)
                   /\ endsWith(s, <<".","l","o","c","a","l">>)
                   /\ DotStar(s, 5, Len(s) - 6)
      [] k = 4  -> endsWith(s, <<".","k","e","y">>)
      [] k = 5  -> endsWith(s, <<".","p","e","m">>)
      [] k = 6  -> \/ includes(toLowerCase(s), <<"p","r","i","v","a","t","e","-","k","e","y">>)
                   \/ includes(toLowerCase(s), <<"p","r","i","v","a","t","e","_","k","e","y">>)
      [] k = 7  -> \/ includes(toLowerCase(s), <<"s","e","c","r","e","t","-","k","e","y">>)
                   \/ includes(toLowerCase(s), <<"s","e","c","r","e","t","_","k","e","y">>)
      [] k = 8  -> includes(toLowerCase(s), <<"c","r","e","d","e","n","t","i","a","l","s">>)
      [] k = 9  -> \/ includes(toLowerCase(s), <<"o","a","u","t","h","-","t","o","k","e","n">>)
                   \/ includes(toLowerCase(s), <<"o","a","u","t","h","_","t","o","k","e","n">>)
      [] k = 10 -> \/ includes(toLowerCase(s), <<"a","p","i","-","k","e","y">>)
                   \/ includes(toLowerCase(s), <<"a","p","i","_","k","e","y">>)
      [] k = 11 -> \/ includes(toLowerCase(s), <<"a","u","t","h","-","t","o","k","e","n">>)
                   \/ includes(toLowerCase(s), <<"a","u","t","h","_","t","o","k","e","n">>)
      [] k = 12 -> endsWith(s, <<".","v","s","c","o","d","e","/","s","e","t","t","i","n","g","s",".","j","s","o","n">>)
      [] k = 13 -> /\ endsWith(s, <<".","x","m","l">>)
                   /\ \E i \in 0..Len(s) :
                        HasAt(s, <<".","i","d","e","a","/">>, i) /\ DotStar(s, i + 6, Len(s) - 4)
      [] k = 14 -> /\ endsWith(s, <<".","y","m","l">>)
                   /\ \E i \in 0..Len(s) :
                        HasAt(s, <<".","i","d","e","a","/">>, i) /\ DotStar(s, i + 6, Len(s) - 4)

\* a faulty variant: the dotenv pattern without its optional suffix group, /^\.env$/
isBlocked_NoSuffix(fileName, relativePath) ==
    \/ fileName = <<".","e","n","v">>
    \/ relativePath = <<".","e","n","v">>
    \/ \E k \in 2..14 : PatternTest(k, fileName) \/ PatternTest(k, relativePath)

\* BLOCKED_PATTERNS.some(pattern => pattern.test(fileName) || pattern.test(relativePath))
isBlocked(fileName, relativePath) ==
    \E k \in 1..14 : PatternTest(k, fileName) \/ PatternTest(k, relativePath)

\* /<word>\s*[:=]/i matches somewhere in content
KeyAssign(content, word) ==
    LET lc == toLowerCase(content)
    IN  \E i \in 0..Len(lc) :
          /\ HasAt(lc, word, i)
          /\ \E j \in (i + Len(word) + 1)..Len(lc) :
               /\ lc[j] \in {":", "="}
               /\ \A m \in (i + Len(word) + 1)..(j - 1) : lc[m] \in WhiteSpace

\* suspiciousPatterns.some(p => p.test(content))
hasSuspicious(content) ==
    \E w \in {<<"a","p","i","k","e","y">>, <<"a","p","i","_","k","e","y">>, <<"a","p","i","-","k","e","y">>, <<"s","e","c","r","e","t">>, <<"p","a","s","s","w","o","r","d">>, <<"t","o","k","e","n">>,
              <<"p","r","i","v","a","t","e","k","e","y">>, <<"p","r","i","v","a","t","e","_","k","e","y">>, <<"p","r","i","v","a","t","e","-","k","e","y">>} : KeyAssign(content, w)

----------------------------------------------------------------------------
(* Size-limit check: the walkDir callback *)

\* a faulty variant: the comparison with the limit made inclusive
SizeCallback_AtLimit(filePath, size) ==
    LET ext == toLowerCase(extname(basename(filePath)))
        limit == IF ext \in IMAGE_EXTS THEN SIZE_LIMITS_images ELSE SIZE_LIMITS_default
    IN  IF ext \in VIDEO_EXTS THEN [ev |-> "video", inc |-> 1]
        ELSE IF size >= limit THEN [ev |-> "oversize", inc |-> 1]
        ELSE [ev |-> "pass", inc |-> 0]

\* (filePath, size) => { ... }: the report printed and the errorCount increment
SizeCallback(filePath, size) ==
    LET ext == toLowerCase(extname(basename(filePath)))
        limit == IF ext \in IMAGE_EXTS THEN SIZE_LIMITS_images ELSE SIZE_LIMITS_default
    IN  IF ext \in VIDEO_EXTS THEN [ev |-> "video", inc |-> 1]
        ELSE IF size > limit THEN [ev |-> "oversize", inc |-> 1]
        ELSE [ev |-> "pass", inc |-> 0]

----------------------------------------------------------------------------
(* Sensitive-file check: the walkDir callback *)

\* (filePath) => { ... }: content is what readFileSync returns when readOk
BlockedCallback(filePath, content, readOk) ==
    IF isBlocked(basename(filePath), relative(filePath))
    THEN [ev  |-> IF readOk /\ hasSuspicious(content)
                  THEN "blocked+credentials" ELSE "blocked",
          inc |-> 1]
    ELSE [ev |-> "clean", inc |-> 0]

----------------------------------------------------------------------------
(* Normalizer: the walkDir callback *)

RECURSIVE split(_)
\* content.split('\n')
split(s) ==
    LET i == indexOf(s, <<"\n">>, 0)
    IN  IF i = -1 THEN <<s>>
        ELSE <<substring(s, 0, i)>> \o split(substring(s, i + 1, Len(s)))

RECURSIVE trimRight(_)
\* String.prototype.trimRight
trimRight(s) ==
    IF s # <<>> /\ s[Len(s)] \in WhiteSpace
    THEN trimRight(SubSeq(s, 1, Len(s) - 1))
    ELSE s

\* a faulty variant: no final newline is added
Normalize_NoFinalNewline(content) ==
    LET lines == split(content)
        fixedLines == [i \in 1..Len(lines) |-> trimRight(lines[i])]
    IN  [output   |-> JoinWith(fixedLines, <<"\n">>),
         modified |-> \E i \in 1..Len(lines) : fixedLines[i] # lines[i]]

\* a faulty variant: the final newline is appended whenever the output is nonempty
Normalize_AlwaysNewline(content) ==
    LET lines == split(content)
        fixedLines == [i \in 1..Len(lines) |-> trimRight(lines[i])]
        joined == JoinWith(fixedLines, <<"\n">>)
    IN  [output   |-> IF joined # <<>> THEN joined \o <<"\n">> ELSE joined,
         modified |-> joined # <<>> \/ \E i \in 1..Len(lines) : fixedLines[i] # lines[i]]

\* lines 138-153 of the callback: the output and the modified flag
Normalize(content) ==
    LET lines == split(content)
        fixedLines == [i \in 1..Len(lines) |-> trimRight(lines[i])]
        joined == JoinWith(fixedLines, <<"\n">>)
        addNewline == joined # <<>> /\ ~endsWith(joined, <<"\n">>)
    IN  [output   |-> IF addNewline THEN joined \o <<"\n">> ELSE joined,
         modified |-> addNewline \/ \E i \in 1..Len(lines) : fixedLines[i] # lines[i]]

\* what a writeFileSync that throws can leave in the file: the old content
\* (the open failed) or a prefix of the new one (truncated, then cut short)
FailedWrites(old, new) == {old} \cup {SubSeq(new, 1, n) : n \in 0..(Len(new) - 1)}

\* (filePath) => { try { ... } catch { ... } }: the event, the filesFixed
\* increment, the output computed (when the file was read) and the set of
\* contents the file can have afterwards
FixCallback(content, readOk, writeOk) ==
    LET n == Normalize(content)
    IN  IF ~readOk
        THEN [ev |-> "warn-read", inc |-> 0, output |-> <<>>, after |-> {content}]
        ELSE IF ~n.modified
        THEN [ev |-> "unchanged", inc |-> 0, output |-> n.output, after |-> {content}]
        ELSE IF writeOk
        THEN [ev |-> "fixed", inc |-> 1, output |-> n.output, after |-> {n.output}]
        ELSE [ev |-> "warn-write", inc |-> 0, output |-> n.output,
              after |-> FailedWrites(content, n.output)]

----------------------------------------------------------------------------
(* The working tree *)

\* the entries readdirSync(dir) returns, as paths
Children(t, dir) ==
    {n.path : n \in {m \in t : Len(m.path) = Len(dir) + 1
                               /\ SubSeq(m.path, 1, Len(dir)) = dir}}

\* the orders in which readdirSync may list a set of entries
Listings(s) ==
    {f \in [1..Cardinality(s) -> s] :
        \A i, j \in 1..Cardinality(s) : i # j => f[i] # f[j]}

KindOf(t, p) == (CHOOSE n \in t : n.path = p).kind

Files(t) == {n.path : n \in {m \in t : m.kind = "file"}}

Dirs(t) == {n.path : n \in {m \in t : m.kind = "dir"}}

\* the trees got from t by adding one entry to the root or to a directory
Grow(t, dirNames, fileNames) ==
    {t \cup {[path |-> Append(d, nm), kind |-> k]} :
        <<d, nm, k>> \in
            {x \in (Dirs(t) \cup {<<>>}) \X (dirNames \cup fileNames) \X {"file", "dir"} :
                /\ x[2] \in (IF x[3] = "dir" THEN dirNames ELSE fileNames)
                /\ Append(x[1], x[2]) \notin {n.path : n \in t}}}

RECURSIVE Trees(_, _, _)
\* every tree of at most n entries over the given names
Trees(n, dirNames, fileNames) ==
    IF n = 0 THEN {{}}
    ELSE LET smaller == Trees(n - 1, dirNames, fileNames)
         IN  smaller \cup UNION {Grow(t, dirNames, fileNames) : t \in smaller}

\* the tree that holds one file at path p and the directories above it
TreeOf(p) ==
    {[path |-> SubSeq(p, 1, i), kind |-> IF i = Len(p) THEN "file" ELSE "dir"] :
        i \in 1..Len(p)}

RECURSIVE Strings(_, _)
\* every string of at most n characters over an alphabet
Strings(n, alphabet) ==
    IF n = 0 THEN {<<>>}
    ELSE LET shorter == Strings(n - 1, alphabet)
         IN  shorter \cup {Append(s, c) : s \in shorter, c \in alphabet}

----------------------------------------------------------------------------
(* Inputs of the tree-walking scripts *)

N_ajs == <<"a",".","j","s">>

\* names of the enumerated trees: an excluded name, a name only the size
\* check excludes, and a name with an included extension
ShapeDirNames == {N_dist, N_cache, N_ajs}

ShapeFileNames == {N_dist, N_ajs}

\* file sizes around the two limits
SizeSamples == {0, 1, SIZE_LIMITS_images - 1, SIZE_LIMITS_images,
                SIZE_LIMITS_images + 1, SIZE_LIMITS_default - 1,
                SIZE_LIMITS_default, SIZE_LIMITS_default + 1}

SizeNames == {<<"a",".","p","n","g">>, <<"a",".","P","N","G">>, <<"a",".","j","p","e","g">>, <<"c","l","i","p",".","m","p","4">>, <<"c","l","i","p",".","M","P","4">>, <<"a",".","w","e","b","m">>,
              <<"a",".","t","x","t">>, <<"a",".","m","p","4",".","t","x","t">>, <<"p","n","g">>, <<".","p","n","g">>, <<".","m","p","4">>, <<"a",".","p","n","g",".">>}

\* the characters of the contents drawn for the normalizer
FixAlphabet == {"x", " ", "\r", "\n"}

FixNames == {N_ajs, <<"b",".","m","d">>}

\* paths drawn for the sensitive-file check
BlockedPaths ==
    {<<<<".","e","n","v">>>>, <<<<".","e","n","v",".","l","o","c","a","l">>>>, <<<<".","e","n","v",".","p","r","o","d","u","c","t","i","o","n">>>>, <<<<".","e","n","v",".","a",".","l","o","c","a","l">>>>,
     <<<<".","e","n","v",".">>>>, <<<<".","e","n","v","r","c">>>>, <<<<"e","n","v">>>>, <<<<"a",".","e","n","v">>>>, <<<<".","E","N","V">>>>,
     <<<<".","e","n","v",".","c","r","e","d","e","n","t","i","a","l","s",".","k","e","y">>>>, <<<<"i","d",".","p","e","m">>>>, <<<<"A","P","I","_","K","E","Y",".","t","x","t">>>>,
     <<<<"a",".","j","s">>>>, <<<<"l","i","b">>, <<".","e","n","v">>>>, <<<<"l","i","b">>, <<".","e","n","v",".","t","e","s","t">>>>,
     <<<<"c","r","e","d","e","n","t","i","a","l","s">>, <<"a",".","j","s">>>>, <<<<".","v","s","c","o","d","e">>, <<"s","e","t","t","i","n","g","s",".","j","s","o","n">>>>,
     <<<<".","i","d","e","a">>, <<"a",".","x","m","l">>>>, <<<<".","i","d","e","a">>, <<"a",".","j","s">>>>,
     <<N_dist, <<".","e","n","v">>>>, <<<<"l","i","b">>, N_git, <<".","e","n","v",".","l","o","c","a","l">>>>}

BlockedContents == {<<>>, <<"x">>, <<"T","O","K","E","N"," ","="," ","1">>, <<"a","p","i","-","k","e","y",":","1">>, <<"t","o","k","e","n","s">>, <<"s","e","c","r","e","t","\n","=">>}

\* the inputs: [check, tree, disk, sizes]
ShapeInputs ==
    {[check |-> c, tree |-> t,
      disk  |-> [p \in Files(t) |-> <<"x">>],
      sizes |-> [p \in Files(t) |-> 1]] :
        c \in {"blocked", "size", "fix"},
        t \in Trees(MaxNodes, ShapeDirNames, ShapeFileNames)}

SizeInputs ==
    {[check |-> "size", tree |-> TreeOf(<<nm>>),
      disk  |-> [p \in {<<nm>>} |-> <<"x">>],
      sizes |-> [p \in {<<nm>>} |-> sz]] :
        nm \in SizeNames, sz \in SizeSamples}

FixInputs ==
    {[check |-> "fix", tree |-> TreeOf(<<nm>>),
      disk  |-> [p \in {<<nm>>} |-> s],
      sizes |-> [p \in {<<nm>>} |-> Len(s)]] :
        nm \in FixNames, s \in Strings(MaxLen, FixAlphabet)}

BlockedInputs ==
    {[check |-> "blocked", tree |-> TreeOf(q),
      disk  |-> [p \in {q} |-> s],
      sizes |-> [p \in {q} |-> Len(s)]] :
        q \in BlockedPaths, s \in BlockedContents}

WalkInputs == ShapeInputs \cup SizeInputs \cup FixInputs \cup BlockedInputs

----------------------------------------------------------------------------
(* The tree-walking scripts as a state machine *)

\* a script starts on one of the given inputs
InitOn(inputs) ==
    /\ \E in \in inputs :
         /\ check = in.check
         /\ tree = in.tree
         /\ disk = in.disk
         /\ sizes = in.sizes
    /\ stack = <<>>
    /\ status = "start"
    /\ cause = ""
    /\ pass = 1
    /\ count = 0
    /\ fileCount = 0
    /\ allNames = {}
    /\ log = <<>>

InitWalk == InitOn(WalkInputs)

\* the system call of one step that throws, if any: statSync, readdirSync,
\* readFileSync or writeFileSync
IO == {"none", "stat", "list", "read", "write"}

\* does the running script's walkDir hand this file to the callback
PassesFilter(c, p) == c # "fix" \/ extname(basename(p)) \in FixExts

\* the callback of the running script on file p: [ev, inc, output, after]
Callback(c, p, io) ==
    CASE c = "blocked" ->
           LET r == BlockedCallback(p, disk[p], io # "read")
           IN  [ev |-> r.ev, inc |-> r.inc, output |-> <<>>, after |-> {disk[p]}]
      [] c = "size" ->
           LET r == SizeCallback(p, sizes[p])
           IN  [ev |-> r.ev, inc |-> r.inc, output |-> <<>>, after |-> {disk[p]}]
      [] OTHER -> FixCallback(disk[p], io # "read", io # "write")

Abort(why) ==
    /\ status' = "aborted"
    /\ cause' = why
    /\ UNCHANGED <<stack, disk, count, log>>

\* the top-level walkDir(cwd, ...) call: readdirSync of the scan root
StartWalk ==
    /\ status = "start"
    /\ check \in {"blocked", "size", "fix"}
    /\ \E io \in IO :
         IF io = "list" THEN Abort("readdir")
         ELSE /\ \E order \in Listings(Children(tree, <<>>)) : stack' = order
              /\ status' = "running"
              /\ UNCHANGED <<cause, disk, count, log>>
    /\ UNCHANGED <<check, tree, sizes, pass, fileCount, allNames>>

\* one iteration of files.forEach in walkDir: statSync, then recurse into
\* the directory, skip it, or call the callback
WalkEntry ==
    /\ status = "running"
    /\ check \in {"blocked", "size", "fix"}
    /\ stack # <<>>
    /\ LET p == Head(stack) IN
       \E io \in IO :
         IF io = "stat" THEN Abort("stat")
         ELSE IF KindOf(tree, p) = "dir"
         THEN IF ~Descend(check, p)
              THEN /\ stack' = Tail(stack)
                   /\ UNCHANGED <<status, cause, disk, count, log>>
              ELSE IF io = "list" THEN Abort("readdir")
              ELSE /\ \E order \in Listings(Children(tree, p)) :
                        stack' = order \o Tail(stack)
                   /\ UNCHANGED <<status, cause, disk, count, log>>
         ELSE IF ~PassesFilter(check, p)
         THEN /\ stack' = Tail(stack)
              /\ UNCHANGED <<status, cause, disk, count, log>>
         ELSE LET r == Callback(check, p, io) IN
              /\ stack' = Tail(stack)
              /\ \E c \in r.after : disk' = [disk EXCEPT ![p] = c]
              /\ count' = count + r.inc
              /\ log' = Append(log, [pass |-> pass, file |-> p, input |-> disk[p],
                                     ev |-> r.ev, output |-> r.output])
              /\ UNCHANGED <<status, cause>>
    /\ UNCHANGED <<check, tree, sizes, pass, fileCount, allNames>>

\* the walk has returned: the summary line is printed and the process exits
FinishWalk ==
    /\ status = "running"
    /\ check \in {"blocked", "size", "fix"}
    /\ stack = <<>>
    /\ status' = "done"
    /\ UNCHANGED <<check, tree, disk, sizes, stack, cause, pass, count,
                   fileCount, allNames, log>>

\* the normalizer is run again on the tree its first run left
Rerun ==
    /\ check = "fix"
    /\ status = "done"
    /\ pass = 1
    /\ pass' = 2
    /\ status' = "start"
    /\ count' = 0
    /\ fileCount' = 0
    /\ allNames' = {}
    /\ UNCHANGED <<check, tree, disk, sizes, stack, cause, log>>

NextWalk == StartWalk \/ WalkEntry \/ FinishWalk \/ Rerun

SpecWalk == InitWalk /\ [][NextWalk]_vars

----------------------------------------------------------------------------
(* Properties of the tree-walking scripts *)

Walkers == {"blocked", "size", "fix"}

\* the callback invocations of the current run
Calls == {i \in 1..Len(log) : log[i].pass = pass}

\* how often the current run has called the callback for file p
Visits(p) == Cardinality({i \in Calls : log[i].file = p})

\* the exclusion set of each script, as its header lists it
ExclusionSet(c) ==
    CASE c = "size" -> {N_node_modules, N_git, N_dist, N_build, N_next, N_cache}
      [] OTHER      -> {N_node_modules, N_git, N_dist, N_build, N_next}

\* no directory above file p (below the root) has an excluded name
OutsideExcluded(c, p) == \A i \in 1..(Len(p) - 1) : p[i] \notin ExclusionSet(c)

\* file p is one the walker must hand to the callback
Eligible(c, p) ==
    /\ OutsideExcluded(c, p)
    /\ c = "fix" => extname(basename(p)) \in FixExts

\* C1: the walker calls the callback exactly once for every file whose
\* ancestor directories all have names outside the exclusion set (for the
\* normalizer: and whose extension is included), and never for a file below
\* an excluded directory, at any depth: no file is ever visited more often
\* than that, and a run that completes has visited each eligible file once.
C1_WalkerVisits ==
    check \in Walkers =>
        \A p \in Files(tree) :
            /\ Visits(p) <= (IF Eligible(check, p) THEN 1 ELSE 0)
            /\ status = "done" => Visits(p) = (IF Eligible(check, p) THEN 1 ELSE 0)

\* a completed walk that visited a file once and left out a file that lies
\* below an excluded directory
C1_Witness ==
    /\ check \in Walkers
    /\ status = "done"
    /\ \E p \in Files(tree) : Eligible(check, p) /\ Visits(p) = 1
    /\ \E q \in Files(tree) : ~OutsideExcluded(check, q) /\ Visits(q) = 0

\* the extension the size limits are classified by
SizeExt(p) == toLowerCase(extname(basename(p)))

\* the size-limit check must report file p of the given size
MustReport(p, size) ==
    \/ SizeExt(p) \in VIDEO_EXTS
    \/ size > (IF SizeExt(p) \in IMAGE_EXTS THEN 512000 ELSE 1048576)

\* C2: the size-limit check records a violation for a visited file iff its
\* size is greater than the limit of its extension (512000 bytes for images,
\* 1048576 bytes otherwise) or it is a video, and errorCount counts exactly
\* these violations.
C2_SizeViolationIff ==
    check = "size" =>
        /\ \A i \in Calls :
              (log[i].ev \in {"video", "oversize"}) <=> MustReport(log[i].file, sizes[log[i].file])
        /\ count = Cardinality({i \in Calls : MustReport(log[i].file, sizes[log[i].file])})

\* an image of exactly 512000 bytes was visited and passed
C2_Witness ==
    /\ check = "size"
    /\ \E i \in Calls :
          /\ SizeExt(log[i].file) \in IMAGE_EXTS
          /\ sizes[log[i].file] = 512000
          /\ log[i].ev = "pass"
          /\ count = 0

\* no space, tab or carriage return stands at the end of a line of s
NoTrailingWhitespace(s) ==
    \A i \in 1..Len(s) :
        s[i] \in {" ", "\t", "\r"} => i < Len(s) /\ s[i + 1] # "\n"

EndsWithNewline(s) == s # <<>> /\ s[Len(s)] = "\n"

EndsWithOneNewline(s) ==
    /\ EndsWithNewline(s)
    /\ Len(s) >= 2 => s[Len(s) - 1] # "\n"

\* the first run read every file it was handed and wrote every fix
FirstPassSucceeded ==
    \A i \in 1..Len(log) : log[i].pass = 1 => log[i].ev \in {"fixed", "unchanged"}

\* C3: the normalizer is idempotent: after a first pass that succeeded, a
\* second pass over the same tree writes no file and counts zero fixes; and
\* a file without trailing whitespace that ends with a single newline is
\* never rewritten.
C3_NormalizerIdempotent ==
    check = "fix" =>
        /\ (pass = 2 /\ FirstPassSucceeded) =>
              /\ count = 0
              /\ \A i \in Calls : log[i].ev \in {"unchanged", "warn-read"}
        /\ \A i \in 1..Len(log) :
              (NoTrailingWhitespace(log[i].input) /\ EndsWithOneNewline(log[i].input))
                  => log[i].ev \in {"unchanged", "warn-read"}

\* a second pass has finished over a file the first pass rewrote
C3_Witness ==
    /\ check = "fix"
    /\ pass = 2
    /\ status = "done"
    /\ \E i \in 1..Len(log) : log[i].pass = 1 /\ log[i].ev = "fixed"
    /\ \E i \in Calls : log[i].ev = "unchanged"
    /\ FirstPassSucceeded

\* the base name matches /^\.env(\..*)?$/
EnvName(name) ==
    \/ name = <<".","e","n","v">>
    \/ /\ Len(name) >= 5
       /\ SubSeq(name, 1, 5) = <<".","e","n","v",".">>
       /\ \A i \in 6..Len(name) : name[i] \notin {"\n", "\r"}

\* C6: each visit of a file whose base name matches /^\.env(\..*)?$/ adds
\* exactly one to blockedCount, however many patterns match and whatever the
\* content scan finds, and the sensitive-file check never changes a file.
C6_EnvBlockedOnce ==
    [][check = "blocked" =>
          /\ disk' = disk
          /\ (Len(log') = Len(log) + 1 /\ EnvName(basename(log'[Len(log')].file)))
                => count' = count + 1]_vars

\* .env.local, which the first two patterns both match, was visited with
\* credentials in its content, and blockedCount is 1
C6_Witness ==
    /\ check = "blocked"
    /\ count = 1
    /\ \E i \in Calls :
          /\ EnvName(basename(log[i].file))
          /\ PatternTest(2, basename(log[i].file))
          /\ log[i].ev = "blocked+credentials"

\* C10 as stated: the content the normalizer produces has no trailing
\* whitespace on any line and, if nonempty, ends with exactly one newline.
C10_ExactlyOneNewline ==
    check = "fix" =>
        \A i \in 1..Len(log) :
            log[i].ev \in {"fixed", "unchanged", "warn-write"} =>
                /\ NoTrailingWhitespace(log[i].output)
                /\ log[i].output # <<>> => EndsWithOneNewline(log[i].output)

\* C10 amended: the content the normalizer produces has no trailing
\* whitespace on any line and, if nonempty, ends with a newline (trailing
\* blank lines are kept); it is the file's content after the pass whenever
\* the file was read and no write failed.
C10_EndsWithNewline ==
    check = "fix" =>
        /\ \A i \in 1..Len(log) :
              log[i].ev \in {"fixed", "unchanged", "warn-write"} =>
                  /\ NoTrailingWhitespace(log[i].output)
                  /\ log[i].output # <<>> => EndsWithNewline(log[i].output)
        /\ \A i \in Calls :
              log[i].ev \in {"fixed", "unchanged"} => disk[log[i].file] = log[i].output

\* a file with trailing whitespace and no final newline was rewritten
C10_Witness ==
    /\ check = "fix"
    /\ \E i \in Calls :
          /\ log[i].ev = "fixed"
          /\ ~NoTrailingWhitespace(log[i].input)
          /\ ~EndsWithNewline(log[i].input)
          /\ disk[log[i].file] = log[i].output
          /\ log[i].output # <<>>

----------------------------------------------------------------------------
(* yaml.parse and the JavaScript values it returns.                         *)
(*                                                                          *)
(* The parser of the yaml package is modelled on block mappings of          *)
(* one-line "key: value" entries with plain, double-quoted, flow-sequence,  *)
(* integer, boolean and null values, blank lines and comment lines, and a   *)
(* one-line plain scalar document; every input drawn below is of this form. *)

\* a JavaScript value: t is its type, v its text, id tells objects apart
Value(t, v) == [t |-> t, v |-> v, id |-> <<>>]

Undefined == Value("undefined", <<>>)

Null == Value("null", <<>>)

Digits == {"0", "1", "2", "3", "4", "5", "6", "7", "8", "9"}

RECURSIVE trimLeft(_)
\* String.prototype.trimLeft
trimLeft(s) ==
    IF s # <<>> /\ s[1] \in WhiteSpace THEN trimLeft(Tail(s)) ELSE s

\* String.prototype.trim
trim(s) == trimLeft(trimRight(s))

\* the value a YAML scalar or flow node denotes; t = "throw" for a node the
\* parser rejects
ParseValue(text) ==
    IF text = <<>> \/ text = <<"~">> \/ text = <<"n","u","l","l">> THEN Null
    ELSE IF text[1] = "\""
    THEN IF Len(text) >= 2 /\ text[Len(text)] = "\""
              /\ \A i \in 2..(Len(text) - 1) : text[i] # "\""
         THEN Value("string", SubSeq(text, 2, Len(text) - 1))
         ELSE Value("throw", <<>>)
    ELSE IF text[1] = "["
    THEN IF text[Len(text)] = "]" THEN Value("object", text) ELSE Value("throw", <<>>)
    ELSE IF text = <<"t","r","u","e">> \/ text = <<"f","a","l","s","e">> THEN Value("boolean", text)
    ELSE IF \A i \in 1..Len(text) : text[i] \in Digits THEN Value("number", text)
    ELSE IF includes(text, <<":"," ">>) \/ text[Len(text)] = ":" THEN Value("throw", <<>>)
    ELSE Value("string", text)

\* the offset of the ":" that ends the key of a block-mapping line, or -1
KeyEnd(line) ==
    LET ends == {i \in 0..(Len(line) - 1) :
                    /\ line[i + 1] = ":"
                    /\ (i + 1 = Len(line) \/ line[i + 2] = " ")}
    IN  IF ends = {} THEN -1 ELSE CHOOSE i \in ends : \A j \in ends : i <= j

\* the lines of a document that carry content: not blank, not a comment
ContentLines(str) ==
    LET lines == split(str)
    IN  SelectSeq([i \in 1..Len(lines) |-> trimRight(lines[i])],
                  LAMBDA l : l # <<>> /\ l[1] # "#")

\* yaml.parse(str): [kind, fields], kind one of "throw", "null", "scalar", "map"
yaml_parse(str) ==
    LET ls == ContentLines(str)
        isEntry(l) == KeyEnd(l) > 0 /\ l[1] \notin {" ", "[", "\"", "-"}
        key(l) == SubSeq(l, 1, KeyEnd(l))
        val(l) == ParseValue(trim(SubSeq(l, KeyEnd(l) + 2, Len(l))))
        keys == {key(ls[i]) : i \in 1..Len(ls)}
    IN  IF ls = <<>> THEN [kind |-> "null", fields |-> <<>>]
        ELSE IF \A i \in 1..Len(ls) : isEntry(ls[i])
        THEN IF \/ \E i, j \in 1..Len(ls) : i # j /\ key(ls[i]) = key(ls[j])
                \/ \E i \in 1..Len(ls) : val(ls[i]).t = "throw"
             THEN [kind |-> "throw", fields |-> <<>>]
             ELSE [kind   |-> "map",
                   fields |-> [k \in keys |->
                                 val(ls[CHOOSE i \in 1..Len(ls) : key(ls[i]) = k])]]
        ELSE IF Len(ls) = 1 /\ KeyEnd(ls[1]) = -1 /\ ParseValue(trim(ls[1])).t # "throw"
        THEN [kind |-> "scalar", fields |-> <<>>]
        ELSE [kind |-> "throw", fields |-> <<>>]

\* frontmatter[field] on what yaml.parse returned (not null): a scalar has
\* no such property, a mapping has it when the key is present
Get(doc, field) ==
    IF doc.kind = "map" /\ field \in DOMAIN doc.fields THEN doc.fields[field]
    ELSE Undefined

\* !x is false
Truthy(x) ==
    CASE x.t = "string"  -> x.v # <<>>
      [] x.t = "number"  -> \E i \in 1..Len(x.v) : x.v[i] # "0"
      [] x.t = "boolean" -> x.v = <<"t","r","u","e">>
      [] x.t = "object"  -> TRUE
      [] OTHER           -> FALSE

K_name == <<"n","a","m","e">>
K_description == <<"d","e","s","c","r","i","p","t","i","o","n">>
K_model == <<"m","o","d","e","l">>
K_location == <<"l","o","c","a","t","i","o","n">>

\* const required = ['name', 'description']
Required == <<K_name, K_description>>

\* required.filter(field => !frontmatter[field])
Missing(doc) == SelectSeq(Required, LAMBDA f : ~Truthy(Get(doc, f)))

\* typeof x !== 'string' || x.trim() === ''
NotNonEmptyString(x) == x.t # "string" \/ trim(x.v) = <<>>

----------------------------------------------------------------------------
(* validate-frontmatter.js: the body of files.forEach after readFileSync *)

\* content.indexOf('\n---\n', 4)
EndDelimiter(content) == indexOf(content, <<"\n","-","-","-","\n">>, 4)

\* the report printed for one file and the errorCount increment
ValidateFile(content) ==
    IF ~startsWith(content, <<"-","-","-">>) THEN [ev |-> "missing-start", inc |-> 1]
    ELSE IF EndDelimiter(content) = -1 THEN [ev |-> "missing-end", inc |-> 1]
    ELSE LET doc == yaml_parse(substring(content, 4, EndDelimiter(content)))
         IN  IF doc.kind \in {"throw", "null"} THEN [ev |-> "invalid-yaml", inc |-> 1]
             ELSE IF Missing(doc) # <<>> THEN [ev |-> "missing-fields", inc |-> 1]
             ELSE IF NotNonEmptyString(Get(doc, K_name))
             THEN [ev |-> "name-type", inc |-> 1]
             ELSE IF NotNonEmptyString(Get(doc, K_description))
             THEN [ev |-> "description-type", inc |-> 1]
             ELSE [ev |-> "valid", inc |-> 0]

----------------------------------------------------------------------------
(* verify-agent-consistency.js: the body of files.forEach after readFileSync *)

\* the element a Set holds for value x read from file p: a primitive is
\* found again by value, an object (a YAML sequence) only by identity
SetElement(x, p) == IF x.t = "object" THEN [x EXCEPT !.id = p] ELSE x

\* the report printed for one file of directory dir, the errorCount
\* increment, the warnings printed and the Set of names afterwards
ConsistencyFile(dir, p, content, names) ==
    IF ~startsWith(content, <<"-","-","-">>)
    THEN [ev |-> "missing-frontmatter", inc |-> 1, warn |-> {}, names |-> names]
    ELSE IF EndDelimiter(content) = -1
    THEN [ev |-> "invalid-frontmatter", inc |-> 1, warn |-> {}, names |-> names]
    ELSE LET doc == yaml_parse(substring(content, 4, EndDelimiter(content)))
             name == Get(doc, K_name)
         IN  IF doc.kind \in {"throw", "null"}
             THEN [ev |-> "error", inc |-> 1, warn |-> {}, names |-> names]
             ELSE IF ~Truthy(name)
             THEN [ev |-> "missing-name", inc |-> 1, warn |-> {}, names |-> names]
             ELSE IF SetElement(name, p) \in names
             THEN [ev |-> "duplicate", inc |-> 1, warn |-> {}, names |-> names]
             ELSE IF Missing(doc) # <<>>
             THEN [ev |-> "missing-fields", inc |-> 1, warn |-> {},
                   names |-> names \cup {SetElement(name, p)}]
             ELSE [ev    |-> "valid", inc |-> 0,
                   warn  |-> {w \in {"model", "location"} :
                                \/ /\ w = "model"
                                   /\ dir = <<"a","g","e","n","t","s">>
                                   /\ ~Truthy(Get(doc, K_model))
                                \/ /\ w = "location"
                                   /\ dir = <<"s","k","i","l","l","s">>
                                   /\ ~Truthy(Get(doc, K_location))},
                   names |-> names \cup {SetElement(name, p)}]

----------------------------------------------------------------------------
(* Inputs of the frontmatter scripts *)

\* most markdown files of one enumerated run of the consistency check
MaxFiles == 2

N_agents == <<"a","g","e","n","t","s">>
N_skills == <<"s","k","i","l","l","s">>
N_commands == <<"c","o","m","m","a","n","d","s">>
N_amd == <<"a",".","m","d">>
N_bmd == <<"b",".","m","d">>

\* a document: its first line, header lines, closing line and body
Doc(first, header, close, body) == first \o <<"\n">> \o header \o close \o body

Firsts == {<<"-","-","-">>, <<"-","-","-","-">>, <<"x">>}

Closes == {<<"-","-","-","\n">>, <<"-","-","-">>, <<"-","-","-","-","\n">>, <<>>}

Bodies == {<<>>, <<"b","o","d","y","\n">>}

H_full == <<"n","a","m","e",":"," ","f","o","o","\n","d","e","s","c","r","i","p","t","i","o","n",":"," ","b","a","r","\n">>

Headers ==
    {H_full, <<>>, <<"\n">>, <<"#"," ","c","\n">>, <<"f","o","o","\n">>,
     <<"d","e","s","c","r","i","p","t","i","o","n",":"," ","b","a","r","\n">>, <<"n","a","m","e",":"," ","f","o","o","\n">>,
     <<"n","a","m","e",":"," ","\"","\"","\n","d","e","s","c","r","i","p","t","i","o","n",":"," ","b","a","r","\n">>, <<"n","a","m","e",":"," ","\""," "," ","\"","\n","d","e","s","c","r","i","p","t","i","o","n",":"," ","b","a","r","\n">>,
     <<"n","a","m","e",":"," ","0","\n","d","e","s","c","r","i","p","t","i","o","n",":"," ","b","a","r","\n">>, <<"n","a","m","e",":"," ","7","\n","d","e","s","c","r","i","p","t","i","o","n",":"," ","b","a","r","\n">>,
     <<"n","a","m","e",":","\n","d","e","s","c","r","i","p","t","i","o","n",":"," ","b","a","r","\n">>, <<"n","a","m","e",":"," ","[","a","]","\n","d","e","s","c","r","i","p","t","i","o","n",":"," ","b","a","r","\n">>,
     <<"n","a","m","e",":"," ","f","a","l","s","e","\n","d","e","s","c","r","i","p","t","i","o","n",":"," ","b","a","r","\n">>, <<"n","a","m","e",":"," ","t","r","u","e","\n","d","e","s","c","r","i","p","t","i","o","n",":"," ","b","a","r","\n">>,
     <<"n","a","m","e",":"," ","f","o","o","\n","d","e","s","c","r","i","p","t","i","o","n",":"," ","\"","\"","\n">>, <<"n","a","m","e",":"," ","f","o","o","\n","d","e","s","c","r","i","p","t","i","o","n",":"," ","\""," ","\"","\n">>,
     <<"n","a","m","e",":"," ","f","o","o","\n","d","e","s","c","r","i","p","t","i","o","n",":"," ","7","\n">>, <<"n","a","m","e",":"," ","7","\n","d","e","s","c","r","i","p","t","i","o","n",":"," ","7","\n">>,
     <<"n","a","m","e",":"," ","[","a","\n","d","e","s","c","r","i","p","t","i","o","n",":"," ","b","a","r","\n">>, <<"n","a","m","e",":"," ","f","o","o","\n","n","a","m","e",":"," ","b","a","r","\n","d","e","s","c","r","i","p","t","i","o","n",":"," ","b","a","r","\n">>,
     <<"n","a","m","e",":"," ","f","o","o","\n","b","a","r","\n">>, <<"n","a","m","e",":"," ","\"","f","o","o","\"","\n","\n","d","e","s","c","r","i","p","t","i","o","n",":"," ","b","a","r"," "," ","\n">>}

ValidateContents ==
    {<<>>} \cup {Doc(f, h, c, b) : f \in Firsts, h \in Headers, c \in Closes, b \in Bodies}

ConsistencyHeaders ==
    {<<"n","a","m","e",":"," ","f","o","o","\n","d","e","s","c","r","i","p","t","i","o","n",":"," ","b","a","r","\n">>, <<"n","a","m","e",":"," ","q","u","x","\n","d","e","s","c","r","i","p","t","i","o","n",":"," ","b","a","r","\n">>,
     <<"n","a","m","e",":"," ","f","o","o","\n">>, <<"d","e","s","c","r","i","p","t","i","o","n",":"," ","b","a","r","\n">>, <<>>,
     <<"n","a","m","e",":"," ","f","o","o","\n","d","e","s","c","r","i","p","t","i","o","n",":"," ","b","a","r","\n","m","o","d","e","l",":"," ","m","\n">>,
     <<"n","a","m","e",":"," ","f","o","o","\n","d","e","s","c","r","i","p","t","i","o","n",":"," ","b","a","r","\n","l","o","c","a","t","i","o","n",":"," ","l","\n">>,
     <<"n","a","m","e",":"," ","0","\n","d","e","s","c","r","i","p","t","i","o","n",":"," ","b","a","r","\n">>, <<"n","a","m","e",":"," ","\"","\"","\n","d","e","s","c","r","i","p","t","i","o","n",":"," ","b","a","r","\n">>,
     <<"n","a","m","e",":"," ","[","f","o","o","]","\n","d","e","s","c","r","i","p","t","i","o","n",":"," ","b","a","r","\n">>, <<"n","a","m","e",":"," ","\"","f","o","o","\"","\n","d","e","s","c","r","i","p","t","i","o","n",":"," ","b","a","r","\n">>}

ConsistencyContents ==
    {Doc(<<"-","-","-">>, h, <<"-","-","-","\n">>, <<>>) : h \in ConsistencyHeaders}
        \cup {<<"x">>, Doc(<<"-","-","-">>, H_full, <<"-","-","-">>, <<>>)}

MetaFilePaths == {<<N_agents, N_amd>>, <<N_agents, N_bmd>>,
                  <<N_skills, N_amd>>, <<N_commands, N_amd>>}

\* the tree that holds the given files and the directories above them
TreeOfAll(paths) == UNION {TreeOf(p) : p \in paths}

\* trees with an entry the scripts do not expect, beside a regular file:
\* "skills" is a file, a directory is named like a markdown file, a file
\* is no markdown file
OddTrees ==
    {TreeOf(<<N_agents, N_amd>>) \cup extra :
        extra \in {{[path |-> <<N_skills>>, kind |-> "file"]},
                   {[path |-> <<N_agents, N_bmd>>, kind |-> "dir"]},
                   {[path |-> <<N_agents, <<"c",".","t","x","t">>>>, kind |-> "file"]},
                   {[path |-> <<<<"d","o","c","s">>>>, kind |-> "dir"],
                    [path |-> <<<<"d","o","c","s">>, N_amd>>, kind |-> "file"]}}}

ValidateInputs ==
    {[check |-> "validate", tree |-> TreeOf(<<N_agents, N_amd>>),
      disk  |-> [p \in {<<N_agents, N_amd>>} |-> s],
      sizes |-> [p \in {<<N_agents, N_amd>>} |-> Len(s)]] :
        s \in ValidateContents}

OddInputs ==
    {[check |-> c, tree |-> t,
      disk  |-> [p \in Files(t) |-> Doc(<<"-","-","-">>, H_full, <<"-","-","-","\n">>, <<>>)],
      sizes |-> [p \in Files(t) |-> 1]] :
        c \in {"validate", "consistency"}, t \in OddTrees}

ConsistencyInputs ==
    {[check |-> "consistency", tree |-> TreeOfAll(DOMAIN d), disk |-> d,
      sizes |-> [p \in DOMAIN d |-> Len(d[p])]] :
        d \in UNION {[ps -> ConsistencyContents] :
                        ps \in {x \in SUBSET MetaFilePaths :
                                   Cardinality(x) \in 1..MaxFiles}}}

MetaInputs == ValidateInputs \cup OddInputs \cup ConsistencyInputs

----------------------------------------------------------------------------
(* The frontmatter scripts as a state machine *)

InitMeta == InitOn(MetaInputs)

\* ['agents', 'skills', 'commands'].filter(dir => fs.existsSync(...))
dirsToCheck(t) ==
    SelectSeq(<<<<N_agents>>, <<N_skills>>, <<N_commands>>>>,
              LAMBDA d : d \in {n.path : n \in t})

\* the script starts: dirsToCheck is computed
StartMeta ==
    /\ status = "start"
    /\ check \in {"validate", "consistency"}
    /\ stack' = dirsToCheck(tree)
    /\ status' = "running"
    /\ UNCHANGED <<check, tree, disk, sizes, cause, pass, count, fileCount,
                   allNames, log>>

\* one iteration of dirsToCheck.forEach up to its files.forEach (the
\* directory is listed and filtered), or one iteration of files.forEach
MetaEntry ==
    /\ status = "running"
    /\ check \in {"validate", "consistency"}
    /\ stack # <<>>
    /\ LET p == Head(stack) IN
       \E io \in {"none", "list", "read"} :
         IF Len(p) = 1
         THEN IF io = "list" \/ KindOf(tree, p) = "file"
              THEN /\ Abort("readdir")
                   /\ UNCHANGED <<fileCount, allNames>>
              ELSE /\ \E order \in Listings({f \in Children(tree, p) :
                                               endsWith(basename(f), <<".","m","d">>)}) :
                        stack' = order \o Tail(stack)
                   /\ UNCHANGED <<status, cause, disk, count, log, fileCount, allNames>>
         ELSE IF io = "read" \/ KindOf(tree, p) = "dir"
         THEN /\ Abort("read")
              /\ fileCount' = IF check = "validate" THEN fileCount + 1 ELSE fileCount
              /\ UNCHANGED allNames
         ELSE LET v == ValidateFile(disk[p])
                  r == IF check = "validate"
                       THEN [ev |-> v.ev, inc |-> v.inc, warn |-> {}, names |-> allNames]
                       ELSE ConsistencyFile(p[1], p, disk[p], allNames)
              IN  /\ stack' = Tail(stack)
                  /\ count' = count + r.inc
                  /\ allNames' = r.names
                  /\ fileCount' = IF check = "validate" THEN fileCount + 1 ELSE fileCount
                  /\ log' = Append(log, [pass |-> pass, file |-> p, input |-> disk[p],
                                         ev |-> r.ev, output |-> <<>>, warn |-> r.warn])
                  /\ UNCHANGED <<status, cause, disk>>
    /\ UNCHANGED <<check, tree, sizes, pass>>

\* both forEach loops have returned: the summary line is printed
FinishMeta ==
    /\ status = "running"
    /\ check \in {"validate", "consistency"}
    /\ stack = <<>>
    /\ status' = "done"
    /\ UNCHANGED <<check, tree, disk, sizes, stack, cause, pass, count,
                   fileCount, allNames, log>>

NextMeta == StartMeta \/ MetaEntry \/ FinishMeta

SpecMeta == InitMeta /\ [][NextMeta]_vars

----------------------------------------------------------------------------
(* All five scripts *)

Init == InitOn(WalkInputs \cup MetaInputs)

Next == StartWalk \/ WalkEntry \/ FinishWalk \/ StartMeta \/ MetaEntry
           \/ FinishMeta \/ Rerun

Spec == Init /\ [][Next]_vars

----------------------------------------------------------------------------
(* Properties of the frontmatter scripts *)

\* the file of log entry i got past both delimiter checks
PassedDelimiters(i) ==
    log[i].ev \notin {"missing-start", "missing-end",
                      "missing-frontmatter", "invalid-frontmatter"}

\* the first line of the content is exactly "---" and so is a later line
DelimitedByLines(content) ==
    LET lines == split(content)
    IN  /\ lines[1] = <<"-","-","-">>
        /\ \E k \in 2..Len(lines) : lines[k] = <<"-","-","-">>

\* C8: a file passes both delimiter checks iff its first line is exactly
\* "---" and some later line is exactly "---".
C8_DelimitersByLine ==
    check \in {"validate", "consistency"} =>
        \A i \in 1..Len(log) : PassedDelimiters(i) <=> DelimitedByLines(log[i].input)

\* the text between the delimiters of a content that has both
Span(content) == substring(content, 4, indexOf(content, <<"\n","-","-","-","\n">>, 4))

HasBothDelimiters(content) ==
    startsWith(content, <<"-","-","-">>) /\ indexOf(content, <<"\n","-","-","-","\n">>, 4) # -1

\* a required value that is a string with a character other than whitespace
NonEmptyString(x) == x.t = "string" /\ \E k \in 1..Len(x.v) : x.v[k] \notin WhiteSpace

\* C5: every file ends in one outcome and adds at most one error; the file
\* is valid iff no check fails; a file with an opening and no closing
\* delimiter is reported as missing the end delimiter; and the parse error
\* is reported exactly when the text between the delimiters fails to parse.
C5_FirstFailingCheck ==
    check = "validate" =>
        /\ count = Cardinality({i \in Calls : log[i].ev # "valid"})
        /\ \A i \in 1..Len(log) :
              LET c == log[i].input IN
              /\ log[i].ev = "missing-start" <=> ~startsWith(c, <<"-","-","-">>)
              /\ log[i].ev = "missing-end" <=>
                    (startsWith(c, <<"-","-","-">>) /\ ~HasBothDelimiters(c))
              /\ log[i].ev = "invalid-yaml" <=>
                    (HasBothDelimiters(c) /\ yaml_parse(Span(c)).kind = "throw")
              /\ log[i].ev = "valid" <=>
                    /\ HasBothDelimiters(c)
                    /\ yaml_parse(Span(c)).kind = "map"
                    /\ \A f \in {K_name, K_description} :
                          /\ f \in DOMAIN yaml_parse(Span(c)).fields
                          /\ NonEmptyString(yaml_parse(Span(c)).fields[f])

\* C7: when the header parses to a mapping, the missing-fields violation is
\* reported only if a required key is absent, and a mapping that has both
\* required keys, one of them with a value that is no non-empty string, is
\* reported as the must-be-a-non-empty-string violation.
C7_PresentButInvalid ==
    check = "validate" =>
        \A i \in 1..Len(log) :
            LET c == log[i].input
                doc == yaml_parse(Span(c))
                present == {f \in {K_name, K_description} : f \in DOMAIN doc.fields}
            IN  (HasBothDelimiters(c) /\ doc.kind = "map") =>
                    /\ log[i].ev = "missing-fields" => present # {K_name, K_description}
                    /\ (/\ present = {K_name, K_description}
                        /\ \E f \in present : ~NonEmptyString(doc.fields[f]))
                          => log[i].ev \in {"name-type", "description-type"}

\* the name value the file of log entry i declares: the value of the key
\* "name" of its header, "none" when there is no such key or value
DeclaredName(i) ==
    LET c == log[i].input
        doc == IF HasBothDelimiters(c) THEN yaml_parse(Span(c))
               ELSE [kind |-> "throw", fields |-> <<>>]
    IN  IF doc.kind = "map" /\ K_name \in DOMAIN doc.fields /\ doc.fields[K_name] # Null
        THEN doc.fields[K_name]
        ELSE Value("none", <<>>)

\* C4: in one run of the consistency check a file is reported as a
\* duplicate iff a file scanned earlier declared the same name value.
C4_DuplicateIffSeenEarlier ==
    check = "consistency" =>
        \A i \in Calls :
            log[i].ev = "duplicate" <=>
                /\ DeclaredName(i).t # "none"
                /\ \E j \in Calls : j < i /\ DeclaredName(j) = DeclaredName(i)

\* C9: a run aborts only when a directory cannot be listed; a failure to
\* stat, read, write or parse one file never ends the run.
C9_OnlyListingAborts == status = "aborted" => cause = "readdir"

====
